---- MODULE Spec2Model ----
(***************************************************************************)
(* IntentProvider of core/providers/intent/intent_ali/intent_ali.py:       *)
(* an intent cache (a Python dict, kept here in insertion order) with a    *)
(* time-to-live and a size cap, the parser of the tagged LLM response and  *)
(* detect_intent, written as the steps one execution context takes.        *)
(*                                                                         *)
(* Text is a sequence of tokens: a tag, a whitespace character, a JSON     *)
(* punctuation mark, a JSON atom or a word.                                *)
(***************************************************************************)
EXTENDS Integers, Sequences, FiniteSets, TLC

(***************************************************************************)
(* Program constants (IntentProvider.__init__).                            *)
(***************************************************************************)
cache_expiry == 600

cache_max_size == 100

(***************************************************************************)
(* Bounds of the model.                                                    *)
(***************************************************************************)
\* the clock stops advancing past MaxTime
MaxTime == 700

\* execution contexts that may call detect_intent on the one provider
NumContexts == 2

\* calls one context makes in the interleaved specification
MaxCalls == 2

\* the largest cache clean_cache is started on when it is checked on its own
MaxEntries == 102

(***************************************************************************)
(* Tokens.                                                                 *)
(***************************************************************************)
Whitespace == {" ", "\n"}

\* JSON objects of the shape {"name": ..., "arguments": ...}, kept whole
CallAtoms == {"{play}", "{stop}"}

\* JSON values kept whole: the call objects, the empty object, a number
JsonAtoms == CallAtoms \cup {"{}", "1"}

(***************************************************************************)
(* str.strip(): leading and trailing whitespace removed.                   *)
(***************************************************************************)
RECURSIVE LStrip(_)
LStrip(s) ==
    IF s # <<>> /\ Head(s) \in Whitespace THEN LStrip(Tail(s)) ELSE s

RECURSIVE RStrip(_)
RStrip(s) ==
    IF s # <<>> /\ s[Len(s)] \in Whitespace
    THEN RStrip(SubSeq(s, 1, Len(s) - 1))
    ELSE s

Strip(s) == RStrip(LStrip(s))

(***************************************************************************)
(* re.search(open + "(.*?)" + close, text, re.DOTALL): the leftmost open   *)
(* tag that a close tag follows, and the text up to the first close tag    *)
(* after it (non-greedy; DOTALL lets the group run over line breaks).      *)
(***************************************************************************)
Positions(tok, text) == {i \in 1..Len(text) : text[i] = tok}

Min(S) == CHOOSE x \in S : \A y \in S : x <= y

ReSearch(open, close, text) ==
    LET opens == {i \in Positions(open, text) :
                     \E j \in Positions(close, text) : j > i}
    IN  IF opens = {}
        THEN [matched |-> FALSE, group |-> <<>>]
        ELSE LET i == Min(opens)
                 j == Min({k \in Positions(close, text) : k > i})
             IN  [matched |-> TRUE, group |-> SubSeq(text, i + 1, j - 1)]

(***************************************************************************)
(* json.loads on the text of a <tool_call> segment.  A value is one atom   *)
(* or an array of atoms; whitespace between the tokens is insignificant.   *)
(***************************************************************************)
NonWhite(s) == SelectSeq(s, LAMBDA tok : tok \notin Whitespace)

\* the elements of "a , b , c": atoms at the odd places, commas between
IsElementList(s) ==
    /\ Len(s) % 2 = 1
    /\ \A i \in 1..Len(s) :
          IF i % 2 = 1 THEN s[i] \in JsonAtoms ELSE s[i] = ","

Elements(s) == [i \in 1..((Len(s) + 1) \div 2) |-> s[2 * i - 1]]

JsonError == [kind |-> "error", items |-> <<>>]

JsonLoads(s) ==
    LET t == NonWhite(s)
    IN  IF Len(t) = 1 /\ t[1] \in JsonAtoms
        THEN [kind |-> "atom", items |-> t]
        ELSE IF Len(t) >= 2 /\ t[1] = "[" /\ t[Len(t)] = "]"
        THEN LET inner == SubSeq(t, 2, Len(t) - 1)
             IN  IF inner = <<>>
                 THEN [kind |-> "array", items |-> <<>>]
                 ELSE IF IsElementList(inner)
                 THEN [kind |-> "array", items |-> Elements(inner)]
                 ELSE JsonError
        ELSE JsonError

(***************************************************************************)
(* parse_text: the three tagged segments, stripped; the <tool_call>        *)
(* segment decoded as JSON; the first candidate, if any, as function_call. *)
(* A segment that is not found is the empty string.                        *)
(***************************************************************************)
\* a segment that is not found taken as the empty JSON array
SegmentOrNoCalls(open, close, text) ==
    LET m == ReSearch(open, close, text)
    IN  IF m.matched THEN Strip(m.group) ELSE <<"[", "]">>

Segment(open, close, text) ==
    LET m == ReSearch(open, close, text)
    IN  IF m.matched THEN Strip(m.group) ELSE <<>>

Raised(exc, line) == [ok |-> FALSE, exc |-> exc, line |-> line]

Value(v) == [ok |-> TRUE, value |-> v]

\* len(tools) of a decoded atom: {} has no members, a call object has two
\* (name, arguments), a number has no len()
AtomLen(a) == IF a = "{}" THEN 0 ELSE 2

\* the last candidate taken instead of the first
parse_text_last(text) ==
    LET tags == Segment("<tags>", "</tags>", text)
        tool_call == Segment("<tool_call>", "</tool_call>", text)
        content == Segment("<content>", "</content>", text)
        tools == JsonLoads(tool_call)
        plain == [tags |-> tags, content |-> content]
    IN  CASE tools.kind = "error" -> Raised("JSONDecodeError", 58)
          [] tools.kind = "atom" /\ tools.items[1] = "1" -> Raised("TypeError", 59)
          [] tools.kind = "atom" /\ AtomLen(tools.items[1]) = 0 -> Value(plain)
          [] tools.kind = "atom" /\ AtomLen(tools.items[1]) > 0 -> Raised("KeyError", 66)
          [] tools.kind = "array" /\ Len(tools.items) = 0 -> Value(plain)
          [] tools.kind = "array" /\ Len(tools.items) > 0 ->
                Value([tags |-> tags, function_call |-> tools.items[Len(tools.items)],
                       content |-> content])

parse_text(text) ==
    LET tags == Segment("<tags>", "</tags>", text)
        tool_call == Segment("<tool_call>", "</tool_call>", text)
        content == Segment("<content>", "</content>", text)
        tools == JsonLoads(tool_call)
        plain == [tags |-> tags, content |-> content]
    IN  CASE tools.kind = "error" -> Raised("JSONDecodeError", 58)
          [] tools.kind = "atom" /\ tools.items[1] = "1" -> Raised("TypeError", 59)
          [] tools.kind = "atom" /\ AtomLen(tools.items[1]) = 0 -> Value(plain)
          [] tools.kind = "atom" /\ AtomLen(tools.items[1]) > 0 -> Raised("KeyError", 66)
          [] tools.kind = "array" /\ Len(tools.items) = 0 -> Value(plain)
          [] tools.kind = "array" /\ Len(tools.items) > 0 ->
                Value([tags |-> tags, function_call |-> tools.items[1],
                       content |-> content])

HasFunctionCall(result) == "function_call" \in DOMAIN result

(***************************************************************************)
(* json.dumps(result, ensure_ascii=False): the members in the order the    *)
(* dict was built, each string quoted with its quotes and line breaks      *)
(* escaped.  json.loads(intent) reads that text back.                      *)
(***************************************************************************)
Escape(tok) ==
    CASE tok = "\n" -> "\\n"
      [] tok = "\"" -> "\\\""
      [] OTHER -> tok

Unescape(tok) ==
    CASE tok = "\\n" -> "\n"
      [] tok = "\\\"" -> "\""
      [] OTHER -> tok

Quoted(s) == <<"\"">> \o [i \in 1..Len(s) |-> Escape(s[i])] \o <<"\"">>

JsonDumps(result) ==
    <<"{", "\"tags\"", ":">> \o Quoted(result.tags)
    \o (IF HasFunctionCall(result)
        THEN <<",", "\"function_call\"", ":", result.function_call>>
        ELSE <<>>)
    \o <<",", "\"content\"", ":">> \o Quoted(result.content) \o <<"}">>

\* the string literal that starts at s[i]: its text and the place after it
ReadString(s, i) ==
    IF i > Len(s) \/ s[i] # "\""
    THEN [ok |-> FALSE, text |-> <<>>, next |-> i]
    ELSE LET ends == {j \in (i + 1)..Len(s) : s[j] = "\""}
         IN  IF ends = {}
             THEN [ok |-> FALSE, text |-> <<>>, next |-> i]
             ELSE LET j == Min(ends)
                  IN  [ok |-> TRUE,
                       text |-> [k \in 1..(j - i - 1) |-> Unescape(s[i + k])],
                       next |-> j + 1]

Starts(s, i, toks) ==
    /\ i + Len(toks) - 1 <= Len(s)
    /\ SubSeq(s, i, i + Len(toks) - 1) = toks

JsonLoadsIntent(s) ==
    LET tags == ReadString(s, 4)
        i == tags.next
        call == Starts(s, i, <<",", "\"function_call\"", ":">>)
        j == IF call THEN i + 4 ELSE i
        content == ReadString(s, j + 3)
        wellFormed ==
            /\ Starts(s, 1, <<"{", "\"tags\"", ":">>)
            /\ tags.ok
            /\ call => (i + 3 <= Len(s) /\ s[i + 3] \in JsonAtoms)
            /\ Starts(s, j, <<",", "\"content\"", ":">>)
            /\ content.ok
            /\ Starts(s, content.next, <<"}">>)
            /\ content.next = Len(s)
    IN  IF ~wellFormed THEN Raised("JSONDecodeError", 138)
        ELSE IF call
        THEN Value([tags |-> tags.text, function_call |-> s[i + 3],
                    content |-> content.text])
        ELSE Value([tags |-> tags.text, content |-> content.text])

\* the literal detect_intent returns when json.loads(intent) fails; the token
\* "continue_chat" stands for its four characters U+7EE7 U+7EED U+804A U+5929
Fallback == <<"{", "\"intent\"", ":", "\"", "continue_chat", "\"", "}">>

(***************************************************************************)
(* The cache: self.intent_cache, a dict from cache key to                  *)
(* {"intent", "timestamp"}, as the sequence of its items in insertion      *)
(* order (the order a Python dict iterates in).                            *)
(***************************************************************************)
\* hashlib.md5(text.encode()).hexdigest(): the digest of the text, taken to
\* be free of collisions on the texts of the model
md5(text) == <<"md5", text>>

Entry(key, intent, timestamp) ==
    [key |-> key, intent |-> intent, timestamp |-> timestamp]

HasKey(cache, key) == \E i \in 1..Len(cache) : cache[i].key = key

GetItem(cache, key) == cache[CHOOSE i \in 1..Len(cache) : cache[i].key = key]

\* del cache[key]
DelItem(cache, key) == SelectSeq(cache, LAMBDA e : e.key # key)

\* cache[key] = {"intent": intent, "timestamp": timestamp}: a key that is
\* present keeps its place, a new key goes last
SetItem(cache, key, intent, timestamp) ==
    IF HasKey(cache, key)
    THEN [i \in 1..Len(cache) |->
            IF cache[i].key = key THEN Entry(key, intent, timestamp) ELSE cache[i]]
    ELSE Append(cache, Entry(key, intent, timestamp))

KeysOf(items) == [i \in 1..Len(items) |-> items[i].key]

\* the test of line 89 never passing
IsFreshNever(entry, t) == FALSE

\* the test of line 89 with < for <=
IsFreshStrict(entry, t) == t - entry.timestamp < cache_expiry

\* line 89: the lookup takes an entry of this age as a hit
IsFresh(entry, t) == t - entry.timestamp <= cache_expiry

\* the test of line 30 with >= for >
IsExpiredAtBoundary(entry, t) == t - entry.timestamp >= cache_expiry

\* the test of line 30 one second late
IsExpiredLate(entry, t) == t - entry.timestamp > cache_expiry + 1

\* line 30: clean_cache takes an entry of this age as expired
IsExpired(entry, t) == t - entry.timestamp > cache_expiry

\* lines 27-31: expired_keys, in the order of the dict
ExpiredKeys(cache, t) == KeysOf(SelectSeq(cache, LAMBDA e : IsExpired(e, t)))

\* the sort of line 38 with the newest first
SortedPlaceNewestFirst(items, i) ==
    Cardinality({j \in 1..Len(items) :
        \/ items[j].timestamp > items[i].timestamp
        \/ items[j].timestamp = items[i].timestamp /\ j <= i})

\* sorted(items, key=timestamp): stable, so equal timestamps keep dict order.
\* The place of the i-th item is the number of items that go before it, plus 1.
SortedPlace(items, i) ==
    Cardinality({j \in 1..Len(items) :
        \/ items[j].timestamp < items[i].timestamp
        \/ items[j].timestamp = items[i].timestamp /\ j <= i})

SortedItems(cache) ==
    LET place == [i \in 1..Len(cache) |-> SortedPlace(cache, i)]
    IN  [r \in 1..Len(cache) |-> cache[CHOOSE i \in 1..Len(cache) : place[i] = r]]

\* the slice of line 41 one item short
EvictKeysShort(cache) ==
    LET sorted_items == SortedItems(cache)
    IN  KeysOf(SubSeq(sorted_items, 1, Len(sorted_items) - cache_max_size - 1))

\* line 41: the keys of sorted_items[: len(sorted_items) - cache_max_size]
EvictKeys(cache) ==
    LET sorted_items == SortedItems(cache)
    IN  KeysOf(SubSeq(sorted_items, 1, Len(sorted_items) - cache_max_size))

(***************************************************************************)
(* Inputs: the texts detect_intent is called with, named by number, and    *)
(* the raw texts the LLM client answers with.                              *)
(***************************************************************************)
NumTexts == 2

Texts == 1..NumTexts

Contexts == 1..NumContexts

Tagged(tags, tool_call, content) ==
    <<"<tags>">> \o tags \o <<"</tags>", "<tool_call>">> \o tool_call
    \o <<"</tool_call>", "<content>">> \o content \o <<"</content>">>

\* no candidate call
RespPlain == Tagged(<<"music">>, <<"[", "]">>, <<"hi">>)

\* two candidate calls, surrounded by whitespace
RespCall ==
    <<"\n">> \o Tagged(<<" ", "music">>, <<"[", "{play}", ",", " ", "{stop}", "]">>,
                       <<"hi", "\n">>) \o <<" ">>

\* no <tool_call> segment
RespNoToolCall == <<"<tags>", "music", "</tags>", "<content>", "hi", "</content>">>

\* a first candidate that is no JSON object
RespNumber == Tagged(<<"music">>, <<"[", "1", "]">>, <<"hi">>)

Responses == {RespPlain, RespCall, RespNoToolCall, RespNumber}

(***************************************************************************)
(* State.                                                                  *)
(***************************************************************************)
VARIABLES
    llm,            \* self.llm: "None" or "set"
    intent_cache,   \* self.intent_cache
    now,            \* what time.time() returns
    ctx,            \* per execution context: where its call is, and its locals
    calls,          \* per execution context: the calls it has begun
    last_insert     \* per cache key inserted so far: the string the call that
                    \* last inserted under that key returned, and the time
                    \* of that insert

vars == <<llm, intent_cache, now, ctx, calls, last_insert>>

NoOutcome == [kind |-> "none", value |-> <<>>, exc |-> "", line |-> 0]

Returned(value, line) == [kind |-> "return", value |-> value, exc |-> "", line |-> line]

Raise(exc, line) == [kind |-> "raise", value |-> <<>>, exc |-> exc, line |-> line]

NoEntry == Entry(md5(0), <<>>, 0)

\* what a raw text was built from, when it is one of ParseInputs below
NoParts == [tags |-> <<>>, candidates |-> <<>>, content |-> <<>>, array |-> FALSE]

\* a context that is in no call
IdleCtx ==
    [pc |-> "idle", text |-> 0, cache_key |-> md5(0), total_start_time |-> 0,
     found |-> FALSE, cache_entry |-> NoEntry, lookup_time |-> 0,
     clean_now |-> 0, clean_from |-> <<>>, scan_len |-> 0,
     expired_keys |-> <<>>, evict_keys |-> <<>>,
     llm_response |-> <<>>, built_from |-> NoParts, parsed |-> Raised("", 0),
     intent |-> <<>>,
     outcome |-> NoOutcome, log |-> <<>>]

\* the string of last_insert[key], and the empty string for a key never
\* inserted
LastInsert(key) ==
    IF key \in DOMAIN last_insert THEN last_insert[key].intent ELSE <<>>

\* the time of the insert of last_insert[key]
InsertTime(key) == last_insert[key].at

Init ==
    /\ llm = "None"
    /\ intent_cache = <<>>
    /\ now = 0
    /\ ctx = [c \in Contexts |-> IdleCtx]
    /\ calls = [c \in Contexts |-> 0]
    /\ last_insert = <<>>

Resting(c) == ctx[c].pc \in {"idle", "done"}

Set(c, fields) ==
    ctx' = [ctx EXCEPT ![c] = [f \in DOMAIN @ |->
                IF f \in DOMAIN fields THEN fields[f] ELSE @[f]]]

Logged(c, step) == Append(ctx[c].log, step)

\* the steps of a miss, in the order of the code
MissOrder == <<"lookup", "clean_cache", "get_functions", "llm", "parse_text", "insert">>

Count(seq, x) == Cardinality({i \in 1..Len(seq) : seq[i] = x})

\* the call ends: with a value returned or an exception raised to the caller
Ends(c, outcome, log) == Set(c, [pc |-> "done", outcome |-> outcome, log |-> log])

(***************************************************************************)
(* The LLM client is injected from outside, between calls (self.llm is     *)
(* None after construction, and None can be injected again); time passes.  *)
(***************************************************************************)
set_llm(client) ==
    /\ \A c \in Contexts : Resting(c)
    /\ llm # client
    /\ llm' = client
    /\ UNCHANGED <<intent_cache, now, ctx, calls, last_insert>>

TickSteps == {cache_expiry \div 2, cache_expiry \div 2 + 1}

Tick ==
    /\ \E d \in TickSteps : now + d <= MaxTime /\ now' = now + d
    /\ UNCHANGED <<llm, intent_cache, ctx, calls, last_insert>>

(***************************************************************************)
(* detect_intent, step by step.  Each step is one access to the shared     *)
(* dict or to the LLM client, together with the local work around it.      *)
(***************************************************************************)
\* the check of line 72 dropped
LlmMissingNever(client) == FALSE

\* line 72: not self.llm
LlmMissing(client) == client = "None"

\* lines 72-83: the LLM check, the start time, the cache key
Begin(c, text) ==
    /\ Resting(c)
    /\ IF LlmMissing(llm)
       THEN ctx' = [ctx EXCEPT ![c] =
                [IdleCtx EXCEPT !.pc = "done", !.text = text,
                                !.outcome = Raise("ValueError", 73)]]
       ELSE ctx' = [ctx EXCEPT ![c] =
                [IdleCtx EXCEPT !.pc = "lookup", !.text = text,
                                !.cache_key = md5(text),
                                !.total_start_time = now]]
    /\ UNCHANGED <<llm, intent_cache, now, last_insert>>

\* line 86: cache_key in self.intent_cache
Lookup(c) ==
    /\ ctx[c].pc = "lookup"
    /\ LET found == HasKey(intent_cache, ctx[c].cache_key)
       IN  Set(c, [pc |-> IF found THEN "fetch" ELSE "clean",
                   found |-> found, log |-> Logged(c, "lookup")])
    /\ UNCHANGED <<llm, intent_cache, now, calls, last_insert>>

\* a hit that refreshes the timestamp of the entry (a sliding expiry)
FetchRefreshing(c) ==
    /\ ctx[c].pc = "fetch"
    /\ IF ~HasKey(intent_cache, ctx[c].cache_key)
       THEN /\ Ends(c, Raise("KeyError", 87), ctx[c].log)
            /\ UNCHANGED intent_cache
       ELSE LET cache_entry == GetItem(intent_cache, ctx[c].cache_key)
            IN  IF IsFresh(cache_entry, now)
                THEN /\ Set(c, [pc |-> "done", cache_entry |-> cache_entry,
                                lookup_time |-> now,
                                outcome |-> Returned(cache_entry.intent, 94)])
                     /\ intent_cache' = SetItem(intent_cache, ctx[c].cache_key,
                                                cache_entry.intent, now)
                ELSE /\ Set(c, [pc |-> "clean", cache_entry |-> cache_entry,
                                lookup_time |-> now])
                     /\ UNCHANGED intent_cache
    /\ UNCHANGED <<llm, now, calls, last_insert>>

\* lines 87-94: the entry is read and, when fresh, returned
Fetch(c) ==
    /\ ctx[c].pc = "fetch"
    /\ IF ~HasKey(intent_cache, ctx[c].cache_key)
       THEN Ends(c, Raise("KeyError", 87), ctx[c].log)
       ELSE LET cache_entry == GetItem(intent_cache, ctx[c].cache_key)
            IN  IF IsFresh(cache_entry, now)
                THEN Set(c, [pc |-> "done", cache_entry |-> cache_entry,
                             lookup_time |-> now,
                             outcome |-> Returned(cache_entry.intent, 94)])
                ELSE Set(c, [pc |-> "clean", cache_entry |-> cache_entry,
                             lookup_time |-> now])
    /\ UNCHANGED <<llm, intent_cache, now, calls, last_insert>>

\* the call of line 97 dropped: a miss goes on without cleaning
CleanSkipped(c) ==
    /\ ctx[c].pc = "clean"
    /\ Set(c, [pc |-> "prompt"])
    /\ UNCHANGED <<llm, intent_cache, now, calls, last_insert>>

\* lines 25-29: clean_cache reads the clock and starts to scan the dict;
\* clean_from keeps the dict as clean_cache found it
CleanBegin(c) ==
    /\ ctx[c].pc = "clean"
    /\ Set(c, [pc |-> "scan", clean_now |-> now, clean_from |-> intent_cache,
               scan_len |-> Len(intent_cache),
               log |-> Logged(c, "clean_cache")])
    /\ UNCHANGED <<llm, intent_cache, now, calls, last_insert>>

\* lines 27-31: the scan ends; a dict whose size changed under it raises
Scan(c) ==
    /\ ctx[c].pc = "scan"
    /\ IF Len(intent_cache) # ctx[c].scan_len
       THEN Ends(c, Raise("RuntimeError", 29), ctx[c].log)
       ELSE Set(c, [pc |-> "expire",
                    expired_keys |-> ExpiredKeys(intent_cache, ctx[c].clean_now)])
    /\ UNCHANGED <<llm, intent_cache, now, calls, last_insert>>

\* lines 32-33: del self.intent_cache[key], one expired key at a time
Expire(c) ==
    /\ ctx[c].pc = "expire"
    /\ ctx[c].expired_keys # <<>>
    /\ LET key == Head(ctx[c].expired_keys)
       IN  IF ~HasKey(intent_cache, key)
           THEN /\ Ends(c, Raise("KeyError", 33), ctx[c].log)
                /\ UNCHANGED intent_cache
           ELSE /\ intent_cache' = DelItem(intent_cache, key)
                /\ Set(c, [expired_keys |-> Tail(ctx[c].expired_keys)])
    /\ UNCHANGED <<llm, now, calls, last_insert>>

\* the size check of lines 36-42 left out
CapSkipped(c) ==
    /\ ctx[c].pc = "expire"
    /\ ctx[c].expired_keys = <<>>
    /\ Set(c, [pc |-> "prompt"])
    /\ UNCHANGED <<llm, intent_cache, now, calls, last_insert>>

\* lines 36-40: the size check and the sorted snapshot of the items
Cap(c) ==
    /\ ctx[c].pc = "expire"
    /\ ctx[c].expired_keys = <<>>
    /\ IF Len(intent_cache) > cache_max_size
       THEN LET keys == EvictKeys(intent_cache)
            IN  Set(c, [pc |-> IF keys = <<>> THEN "prompt" ELSE "evict",
                        evict_keys |-> keys])
       ELSE Set(c, [pc |-> "prompt"])
    /\ UNCHANGED <<llm, intent_cache, now, calls, last_insert>>

\* lines 41-42: del self.intent_cache[key], one of the oldest at a time
Evict(c) ==
    /\ ctx[c].pc = "evict"
    /\ LET key == Head(ctx[c].evict_keys)
           rest == Tail(ctx[c].evict_keys)
       IN  IF ~HasKey(intent_cache, key)
           THEN /\ Ends(c, Raise("KeyError", 42), ctx[c].log)
                /\ UNCHANGED intent_cache
           ELSE /\ intent_cache' = DelItem(intent_cache, key)
                /\ Set(c, [pc |-> IF rest = <<>> THEN "prompt" ELSE "evict",
                           evict_keys |-> rest])
    /\ UNCHANGED <<llm, now, calls, last_insert>>

\* lines 99-110: the tool registry is read and the system prompt built
Prompt(c) ==
    /\ ctx[c].pc = "prompt"
    /\ Set(c, [pc |-> "llm", log |-> Logged(c, "get_functions")])
    /\ UNCHANGED <<llm, intent_cache, now, calls, last_insert>>

\* a failed invocation tried again
LlmFailsRetried(c) == Set(c, [log |-> Logged(c, "llm")])

\* line 121 raises: nothing in detect_intent catches it
LlmFails(c) == Ends(c, Raise("LLMError", 121), Logged(c, "llm"))

\* line 121: self.llm.response_no_stream answers with a raw text, or fails
Invoke(c) ==
    /\ ctx[c].pc = "llm"
    /\ \/ \E response \in Responses :
             Set(c, [pc |-> "parse", llm_response |-> response,
                     log |-> Logged(c, "llm")])
       \/ LlmFails(c)
    /\ UNCHANGED <<llm, intent_cache, now, calls, last_insert>>

\* the failure of line 58 caught like the one of line 138: the fallback
\* literal is returned
ParseCaught(c) ==
    /\ ctx[c].pc = "parse"
    /\ LET parsed == parse_text(Strip(ctx[c].llm_response))
       IN  IF parsed.ok
           THEN Set(c, [pc |-> "post", parsed |-> parsed,
                        intent |-> JsonDumps(parsed.value),
                        log |-> Logged(c, "parse_text")])
           ELSE Set(c, [pc |-> "done", parsed |-> parsed,
                        outcome |-> Returned(Fallback, 182),
                        log |-> Logged(c, "parse_text")])
    /\ UNCHANGED <<llm, intent_cache, now, calls, last_insert>>

\* line 135: json.dumps(self.parse_text(intent.strip()), ensure_ascii=False)
Parse(c) ==
    /\ ctx[c].pc = "parse"
    /\ LET parsed == parse_text(Strip(ctx[c].llm_response))
       IN  IF parsed.ok
           THEN Set(c, [pc |-> "post", parsed |-> parsed,
                        intent |-> JsonDumps(parsed.value),
                        log |-> Logged(c, "parse_text")])
           ELSE Set(c, [pc |-> "done", parsed |-> parsed,
                        outcome |-> Raise(parsed.exc, parsed.line),
                        log |-> Logged(c, "parse_text")])
    /\ UNCHANGED <<llm, intent_cache, now, calls, last_insert>>

\* line 142: function_data.get("name") needs a JSON object
IsDict(atom) == atom \in CallAtoms \cup {"{}"}

\* only a result with a function_call stored: the insert of lines 164-167
\* left out
PostCallsOnly(c) ==
    /\ ctx[c].pc = "post"
    /\ LET intent == ctx[c].intent
           intent_data == JsonLoadsIntent(intent)
       IN  IF ~intent_data.ok
           THEN /\ Ends(c, Returned(Fallback, 182), ctx[c].log)
                /\ UNCHANGED <<intent_cache, last_insert>>
           ELSE IF /\ HasFunctionCall(intent_data.value)
                   /\ ~IsDict(intent_data.value.function_call)
           THEN /\ Ends(c, Raise("AttributeError", 142), ctx[c].log)
                /\ UNCHANGED <<intent_cache, last_insert>>
           ELSE IF HasFunctionCall(intent_data.value)
           THEN /\ intent_cache' = SetItem(intent_cache, ctx[c].cache_key, intent, now)
                /\ last_insert' =
                      (ctx[c].cache_key :> [intent |-> intent, at |-> now])
                      @@ last_insert
                /\ Ends(c, Returned(intent, 161), Logged(c, "insert"))
           ELSE /\ Ends(c, Returned(intent, 174), ctx[c].log)
                /\ UNCHANGED <<intent_cache, last_insert>>
    /\ UNCHANGED <<llm, now, calls>>

\* lines 137-182: the string is decoded again, stored under the key with the
\* time of the store, and returned; a string that does not decode gives the
\* fallback literal and stores nothing
Post(c) ==
    /\ ctx[c].pc = "post"
    /\ LET intent == ctx[c].intent
           intent_data == JsonLoadsIntent(intent)
       IN  IF ~intent_data.ok
           THEN /\ Ends(c, Returned(Fallback, 182), ctx[c].log)
                /\ UNCHANGED <<intent_cache, last_insert>>
           ELSE IF /\ HasFunctionCall(intent_data.value)
                   /\ ~IsDict(intent_data.value.function_call)
           THEN /\ Ends(c, Raise("AttributeError", 142), ctx[c].log)
                /\ UNCHANGED <<intent_cache, last_insert>>
           ELSE /\ intent_cache' = SetItem(intent_cache, ctx[c].cache_key, intent, now)
                /\ last_insert' =
                      (ctx[c].cache_key :> [intent |-> intent, at |-> now])
                      @@ last_insert
                /\ Ends(c, Returned(intent, IF HasFunctionCall(intent_data.value)
                                            THEN 161 ELSE 174),
                        Logged(c, "insert"))
    /\ UNCHANGED <<llm, now, calls>>

(***************************************************************************)
(* Calls that do not interleave: detect_intent has no await in it, so in   *)
(* one event loop a call runs to its end before the next one begins.       *)
(***************************************************************************)
\* a call begins in a context that is in no call
Call(c) ==
    /\ \E text \in Texts : Begin(c, text)
    /\ UNCHANGED calls

\* Evict is left out: it needs more than cache_max_size entries, and from the
\* empty cache that takes more calls than MaxTime leaves room for (SpecWarm
\* starts from such caches)
Next ==
    \/ \E client \in {"None", "set"} : set_llm(client)
    \/ Tick
    \/ Call(1)
    \/ Lookup(1)
    \/ Fetch(1)
    \/ CleanBegin(1)
    \/ Scan(1)
    \/ Expire(1)
    \/ Cap(1)
    \/ Prompt(1)
    \/ Invoke(1)
    \/ Parse(1)
    \/ Post(1)

Spec == Init /\ [][Next]_vars

(***************************************************************************)
(* clean_cache on its own: a miss stands at line 97 with any cache of a    *)
(* family of contents and any of a few clock readings.  The i-th item of   *)
(* a cache of the family is the entry of text i + 1; its timestamps rise   *)
(* or fall along the dict order, are all equal, or are mixed.              *)
(***************************************************************************)
FillSizes ==
    {0, 1, cache_max_size - 1, cache_max_size, cache_max_size + 1, MaxEntries}

FillPatterns == {"rising", "falling", "equal", "mixed"}

Stamp(pattern, i, n) ==
    CASE pattern = "rising" -> i - 1
      [] pattern = "falling" -> n - i
      [] pattern = "equal" -> 0
      [] pattern = "mixed" -> (i * 7) % 50

FillIntent == JsonDumps([tags |-> <<"music">>, content |-> <<"hi">>])

Filled(n, pattern) ==
    [i \in 1..n |-> Entry(md5(i + 1), FillIntent, Stamp(pattern, i, n))]

\* nothing of the family is older than cache_expiry at the first reading and
\* everything is at the last
CleanTimes == {cache_expiry, cache_expiry + 1, cache_expiry + 50, 2 * cache_expiry}

InsertedBy(cache) ==
    [key \in {cache[i].key : i \in 1..Len(cache)} |->
        [intent |-> GetItem(cache, key).intent,
         at |-> GetItem(cache, key).timestamp]]

AtLine97(text, t) ==
    [IdleCtx EXCEPT !.pc = "clean", !.text = text, !.cache_key = md5(text),
                    !.total_start_time = t, !.log = <<"lookup">>]

InitClean ==
    /\ llm = "set"
    /\ now \in CleanTimes
    /\ \E n \in FillSizes, pattern \in FillPatterns :
          intent_cache = Filled(n, pattern)
    /\ ctx = [c \in Contexts |-> IF c = 1 THEN AtLine97(1, now) ELSE IdleCtx]
    /\ calls = [c \in Contexts |-> 0]
    /\ last_insert = InsertedBy(intent_cache)

NextClean ==
    \/ CleanBegin(1)
    \/ Scan(1)
    \/ Expire(1)
    \/ Cap(1)
    \/ Evict(1)

SpecClean == InitClean /\ [][NextClean]_vars

\* clean_cache has returned to line 99
Cleaned(c) == ctx[c].pc = "prompt"

(***************************************************************************)
(* Calls that do not interleave, from a provider that has been in use: the *)
(* cache is at its cap, or one over it, after that many misses one second  *)
(* apart (texts 2, 3, ... at the times 0, 1, ...), the last of them before *)
(* WarmTime.  Text 1 is not cached, text 2 has the oldest entry.           *)
(***************************************************************************)
WarmSizes == {cache_max_size, cache_max_size + 1}

WarmTime == cache_expiry \div 2

InitWarm ==
    /\ llm = "set"
    /\ now = WarmTime
    /\ \E n \in WarmSizes : intent_cache = Filled(n, "rising")
    /\ ctx = [c \in Contexts |-> IdleCtx]
    /\ calls = [c \in Contexts |-> 0]
    /\ last_insert = InsertedBy(intent_cache)

NextWarm ==
    \/ Next
    \/ Evict(1)

SpecWarm == InitWarm /\ [][NextWarm]_vars

(***************************************************************************)
(* Calls from several execution contexts (threads) on the one provider:    *)
(* the steps of the calls interleave in any order.  Each context makes at  *)
(* most MaxCalls calls and all of them MaxCalls + 1 (one call to fill the  *)
(* cache and two that race on it); the clock is taken to advance between   *)
(* calls only (calls that overlap are short); the client, once set, stays  *)
(* set.  Evict is left out as in Next.                                     *)
(***************************************************************************)
RECURSIVE CallsUpTo(_)
CallsUpTo(c) == IF c = 0 THEN 0 ELSE calls[c] + CallsUpTo(c - 1)

TickBetweenCalls ==
    /\ \A c \in Contexts : Resting(c)
    /\ Tick

ConcCall(c) ==
    /\ calls[c] < MaxCalls
    /\ CallsUpTo(NumContexts) < MaxCalls + 1
    /\ \E text \in Texts : Begin(c, text)
    /\ calls' = [calls EXCEPT ![c] = @ + 1]

NextConc ==
    \/ set_llm("set")
    \/ TickBetweenCalls
    \/ \E c \in Contexts : ConcCall(c)
    \/ \E c \in Contexts : Lookup(c)
    \/ \E c \in Contexts : Fetch(c)
    \/ \E c \in Contexts : CleanBegin(c)
    \/ \E c \in Contexts : Scan(c)
    \/ \E c \in Contexts : Expire(c)
    \/ \E c \in Contexts : Cap(c)
    \/ \E c \in Contexts : Prompt(c)
    \/ \E c \in Contexts : Invoke(c)
    \/ \E c \in Contexts : Parse(c)
    \/ \E c \in Contexts : Post(c)

SpecConc == Init /\ [][NextConc]_vars

(***************************************************************************)
(* parse_text on its own: a call stands at line 135 with a raw text built  *)
(* from chosen parts: the three segments in any order, padded with         *)
(* whitespace, the <tool_call> segment a JSON array of up to MaxCandidates *)
(* candidates or some other text, or left out.                             *)
(***************************************************************************)
MaxCandidates == 2

Pads == {<<>>, <<" ">>, <<"\n">>}

TagsTexts == {<<>>, <<"music">>, <<"play", " ", "music">>}

ContentTexts == {<<"hi">>, <<"hi", "\n", "there">>}

CandidateLists ==
    UNION {[1..n -> JsonAtoms] : n \in 0..MaxCandidates}

\* texts of a <tool_call> segment that are no JSON array
OtherToolCalls ==
    {<<>>, <<"oops">>, <<"{}">>, <<"{play}">>, <<"1">>, <<"[", "{play}">>,
     <<"[", "{play}", ",", "]">>}

RECURSIVE Joined(_, _)
Joined(items, pad) ==
    IF Len(items) = 0 THEN <<>>
    ELSE IF Len(items) = 1 THEN items
    ELSE <<Head(items), ",">> \o pad \o Joined(Tail(items), pad)

ArrayText(items, pad) == <<"[">> \o pad \o Joined(items, pad) \o <<"]">>

Orders ==
    {<<"tags", "tool_call", "content">>, <<"tags", "content", "tool_call">>,
     <<"tool_call", "tags", "content">>, <<"tool_call", "content", "tags">>,
     <<"content", "tags", "tool_call">>, <<"content", "tool_call", "tags">>}

Wrapped(name, body, pad) ==
    <<"<" \o name \o ">">> \o pad \o body \o pad \o <<"</" \o name \o ">">>

\* the raw text: the segments in the given order; a segment left out when
\* its name is not in present
Built(order, present, bodies, pad) ==
    LET seg(i) == IF order[i] \in present
                  THEN Wrapped(order[i], bodies[order[i]], pad) \o pad
                  ELSE <<>>
    IN  pad \o seg(1) \o seg(2) \o seg(3)

Presents ==
    {{"tags", "tool_call", "content"}, {"tags", "content"},
     {"tool_call", "content"}, {"tags", "tool_call"}}

AtLine135(raw, parts) ==
    [IdleCtx EXCEPT !.pc = "parse", !.text = 1, !.cache_key = md5(1),
                    !.llm_response = raw, !.built_from = parts,
                    !.log = SubSeq(MissOrder, 1, 4)]

InitParse ==
    /\ llm = "set"
    /\ now = 0
    /\ intent_cache = <<>>
    /\ calls = [c \in Contexts |-> 0]
    /\ last_insert = <<>>
    /\ \E order \in Orders, present \in Presents, pad \in Pads,
          tags \in TagsTexts, content \in ContentTexts :
          \/ \E items \in CandidateLists :
                ctx = [c \in Contexts |->
                    IF c = 1
                    THEN AtLine135(
                            Built(order, present,
                                  [tags |-> tags, content |-> content,
                                   tool_call |-> ArrayText(items, pad)], pad),
                            [tags |-> IF "tags" \in present THEN tags ELSE <<>>,
                             content |-> IF "content" \in present THEN content ELSE <<>>,
                             candidates |-> items,
                             array |-> "tool_call" \in present])
                    ELSE IdleCtx]
          \/ \E other \in OtherToolCalls :
                ctx = [c \in Contexts |->
                    IF c = 1
                    THEN AtLine135(
                            Built(order, present,
                                  [tags |-> tags, content |-> content,
                                   tool_call |-> other], pad),
                            [tags |-> IF "tags" \in present THEN tags ELSE <<>>,
                             content |-> IF "content" \in present THEN content ELSE <<>>,
                             candidates |-> <<>>,
                             array |-> FALSE])
                    ELSE IdleCtx]

NextParse ==
    \/ Parse(1)
    \/ Post(1)

SpecParse == InitParse /\ [][NextParse]_vars

\* parse_text has been called and has returned or raised
Parsed(c) == Count(ctx[c].log, "parse_text") = 1

(***************************************************************************)
(* What the claims speak of.                                               *)
(***************************************************************************)
Done(c) == ctx[c].pc = "done"

\* the call found an entry under its key (lines 86-87)
Fetched(c) == ctx[c].found /\ ctx[c].cache_entry.key = ctx[c].cache_key

\* the age of that entry when line 89 read the clock
AgeAtLookup(c) == ctx[c].lookup_time - ctx[c].cache_entry.timestamp

\* the call was not refused at line 73
Configured(c) == ctx[c].outcome.line # 73

\* the call was neither refused at line 73 nor a hit returned at line 94
Missed(c) == ctx[c].outcome.line \notin {73, 94}

IsPrefix(s, t) == Len(s) <= Len(t) /\ s = SubSeq(t, 1, Len(s))

\* C1: a call that finds an entry of age <= 600 s under its key returns the
\* string stored in that entry, which is the string the call that inserted
\* it returned, and does not invoke the LLM client.
C1_HitReturnsStored ==
    \A c \in Contexts :
        (Done(c) /\ Fetched(c) /\ AgeAtLookup(c) <= 600) =>
            /\ ctx[c].outcome.kind = "return"
            /\ ctx[c].outcome.value = ctx[c].cache_entry.intent
            /\ ctx[c].cache_entry.intent = LastInsert(ctx[c].cache_key)
            /\ Count(ctx[c].log, "llm") = 0

C1_Witness ==
    /\ Done(1) /\ Fetched(1) /\ AgeAtLookup(1) = 600
    /\ ctx[1].outcome.kind = "return"
    /\ HasFunctionCall(JsonLoadsIntent(ctx[1].outcome.value).value)

\* C2, as claimed: after any call with an LLM configured, hit or miss, the
\* cache holds no entry whose age exceeded 600 s when the call began.
C2_PurgedAfterAnyCall ==
    \A c \in Contexts :
        (Done(c) /\ Configured(c)) =>
            \A i \in 1..Len(intent_cache) :
                ctx[c].total_start_time - intent_cache[i].timestamp <= 600

\* C2, amended: after a call that missed the cache, the cache holds no entry
\* whose age exceeded 600 s when the call began (a hit purges nothing).
C2_PurgedAfterMiss ==
    \A c \in Contexts :
        (Done(c) /\ Missed(c)) =>
            \A i \in 1..Len(intent_cache) :
                ctx[c].total_start_time - intent_cache[i].timestamp <= 600

\* a miss has ended and a key inserted earlier is gone from the cache
C2_Witness ==
    /\ Done(1) /\ Missed(1)
    /\ \E t \in Texts :
          /\ t # ctx[1].text
          /\ LastInsert(md5(t)) # <<>>
          /\ ~HasKey(intent_cache, md5(t))

\* C4: a call made while no LLM client is set ends at once with the
\* exception of line 73: nothing is returned, no step of the call has run
\* (no lookup, no read of the tool registry) and the cache is unchanged.
C4_RefusedBeforeAnyEffect ==
    [][\A c \in Contexts :
          (llm = "None" /\ Resting(c) /\ ctx'[c] # ctx[c]) =>
              /\ ctx'[c].pc = "done"
              /\ ctx'[c].outcome = Raise("ValueError", 73)
              /\ ctx'[c].log = <<>>
              /\ intent_cache' = intent_cache
              /\ last_insert' = last_insert]_vars

\* a call was refused although its text has a fresh entry in the cache
C4_Witness ==
    /\ Done(1) /\ ctx[1].outcome = Raise("ValueError", 73)
    /\ HasKey(intent_cache, md5(ctx[1].text))
    /\ IsFresh(GetItem(intent_cache, md5(ctx[1].text)), now)

\* C9: the steps of a call are taken in the order lookup, clean_cache, read
\* of the tool registry, LLM invocation, parse, insert; a miss that returns a
\* parsed result has taken all of them, and the call is at the LLM
\* invocation only with the cleanup and the registry read behind it.
C9_MissOrder ==
    \A c \in Contexts :
        /\ IsPrefix(ctx[c].log, MissOrder)
        /\ ctx[c].pc = "llm" => ctx[c].log = SubSeq(MissOrder, 1, 3)
        /\ (Done(c) /\ ctx[c].outcome.line \in {161, 174}) => ctx[c].log = MissOrder

\* a miss that purged a stale entry of its own key and inserted a new one
C9_Witness ==
    /\ Done(1) /\ ctx[1].log = MissOrder
    /\ Fetched(1) /\ AgeAtLookup(1) > 600

\* C10: a call invokes the LLM client at most once, not at all on a hit and
\* once on a miss; when the invocation fails the call raises that failure,
\* returns nothing and leaves no entry under its key.
C10_OneInvocationNoRetry ==
    \A c \in Contexts :
        /\ Count(ctx[c].log, "llm") <= 1
        /\ (Done(c) /\ ctx[c].outcome.line = 94) => Count(ctx[c].log, "llm") = 0
        /\ (Done(c) /\ Missed(c)) => Count(ctx[c].log, "llm") = 1
        /\ (Done(c) /\ ctx[c].outcome.exc = "LLMError") =>
              /\ ctx[c].outcome = Raise("LLMError", 121)
              /\ Count(ctx[c].log, "insert") = 0
              /\ ~HasKey(intent_cache, ctx[c].cache_key)

\* the invocation failed in a call whose key had a stale entry
C10_Witness ==
    /\ Done(1) /\ ctx[1].outcome.exc = "LLMError"
    /\ Fetched(1) /\ AgeAtLookup(1) > 600

\* C3: whatever the cache held and whatever the time, the cache holds at
\* most 100 entries when clean_cache returns.
C3_AtMostMaxAfterClean ==
    \A c \in Contexts : Cleaned(c) => Len(intent_cache) <= 100

\* clean_cache has returned from a cache of more than 100 entries of which
\* none had expired
C3_Witness ==
    /\ Cleaned(1) /\ ctx[1].scan_len > 100
    /\ \A i \in 1..Len(intent_cache) : ~IsExpired(intent_cache[i], ctx[1].clean_now)
    /\ Len(intent_cache) = 100

\* C6: for a raw text whose <tool_call> segment is a JSON array, parse_text
\* returns the stripped tags and content segments, with a function_call
\* exactly when the array is not empty, and then its first element.
C6_FirstCandidate ==
    \A c \in Contexts :
        (Parsed(c) /\ ctx[c].built_from.array) =>
            /\ ctx[c].parsed.ok
            /\ ctx[c].parsed.value.tags = ctx[c].built_from.tags
            /\ ctx[c].parsed.value.content = ctx[c].built_from.content
            /\ HasFunctionCall(ctx[c].parsed.value) <=> ctx[c].built_from.candidates # <<>>
            /\ ctx[c].built_from.candidates # <<>> =>
                  ctx[c].parsed.value.function_call = ctx[c].built_from.candidates[1]

\* an array of two different candidates, in a text of several lines
C6_Witness ==
    /\ Parsed(1) /\ ctx[1].built_from.array
    /\ Len(ctx[1].built_from.candidates) = 2
    /\ ctx[1].built_from.candidates[1] # ctx[1].built_from.candidates[2]
    /\ "\n" \in {ctx[1].llm_response[i] : i \in 1..Len(ctx[1].llm_response)}
    /\ ctx[1].parsed.ok
    /\ ctx[1].parsed.value.function_call = ctx[1].built_from.candidates[1]

\* the string a miss returns: the LLM response of this call, parsed and dumped
FromResponse(c) == JsonDumps(parse_text(Strip(ctx[c].llm_response)).value)

\* a stale entry under the key makes the call a miss, an entry of age exactly
\* 600 s makes it a hit
C8_LookupBoundary ==
    \A c \in Contexts :
        /\ (Done(c) /\ Fetched(c) /\ AgeAtLookup(c) > 600) =>
              /\ Count(ctx[c].log, "llm") = 1
              /\ ctx[c].outcome.kind = "return" => ctx[c].outcome.value = FromResponse(c)
        /\ (Fetched(c) /\ AgeAtLookup(c) = 600) =>
              /\ Done(c)
              /\ ctx[c].outcome = Returned(ctx[c].cache_entry.intent, 94)

\* in the passes of clean_cache named by pcs, no entry of age exactly 600 s
\* (at the clock reading of line 25) is removed
KeepsBoundaryEntry(pcs) ==
    \A c \in Contexts : \A i \in 1..Len(intent_cache) :
        (ctx[c].pc \in pcs /\ ctx[c].clean_now - intent_cache[i].timestamp = 600) =>
            HasKey(intent_cache', intent_cache[i].key)

\* C8, as claimed: a stale entry is a miss (the LLM client is invoked and the
\* value returned is the new response, parsed), and an entry of age exactly
\* 600 s is a hit and is not removed by clean_cache.
C8_StaleIsMissBoundaryKept ==
    [] C8_LookupBoundary /\ [][KeepsBoundaryEntry({"expire", "evict"})]_vars

\* C8, amended: ... and an entry of age exactly 600 s is a hit and is not
\* removed as expired by clean_cache (the size cap of lines 36-42 can still
\* evict it).
C8_StaleIsMissBoundaryNotExpired ==
    [] C8_LookupBoundary /\ [][KeepsBoundaryEntry({"expire"})]_vars

\* a miss on a stale entry has ended, and an entry that was exactly 600 s old
\* when clean_cache read the clock is still in the cache
C8_Witness ==
    /\ Done(1) /\ Fetched(1) /\ AgeAtLookup(1) > 600
    /\ ctx[1].outcome.kind = "return"
    /\ \E i \in 1..Len(intent_cache) :
          ctx[1].clean_now - intent_cache[i].timestamp = 600

\* the exceptions a dict raises on an access that races with another context
RaceErrors ==
    {Raise("KeyError", 87), Raise("RuntimeError", 29),
     Raise("KeyError", 33), Raise("KeyError", 42)}

\* every key once, every entry an {intent, timestamp} written by an insert
WellFormed(cache) ==
    /\ \A i, j \in 1..Len(cache) : cache[i].key = cache[j].key => i = j
    /\ \A i \in 1..Len(cache) :
          /\ JsonLoadsIntent(cache[i].intent).ok
          /\ cache[i].timestamp \in 0..now

\* C7: however the steps of concurrent calls interleave, no call ends with
\* an error caused by the interleaving, and the cache maps each key to one
\* well-formed entry.
C7_NoErrorFromInterleaving ==
    /\ \A c \in Contexts : ctx[c].outcome \notin RaceErrors
    /\ WellFormed(intent_cache)

\* the raw text has a <tool_call> segment and json.loads refuses its text
ToolCallMalformed(c) ==
    LET m == ReSearch("<tool_call>", "</tool_call>", ctx[c].llm_response)
    IN  m.matched /\ JsonLoads(m.group).kind = "error"

\* the call neither stored an entry under its key nor returned the fallback
NothingStored(c) ==
    /\ Count(ctx[c].log, "insert") = 0
    /\ ~HasKey(intent_cache, ctx[c].cache_key)
    /\ ctx[c].outcome.value # Fallback

\* C11: when the <tool_call> segment of the response is not valid JSON, the
\* call ends with the parse failure of line 58 raised to the caller: nothing
\* is returned (not the fallback literal either) and no entry is inserted
\* under the key of the text.
C11_MalformedToolCallPropagates ==
    \A c \in Contexts :
        (Parsed(c) /\ ToolCallMalformed(c)) =>
            /\ Done(c)
            /\ ctx[c].outcome = Raise("JSONDecodeError", 58)
            /\ NothingStored(c)

\* the call has ended on a <tool_call> segment that holds text, but no JSON
C11_Witness ==
    /\ Done(1)
    /\ ToolCallMalformed(1)
    /\ "oops" \in {ctx[1].llm_response[i] : i \in 1..Len(ctx[1].llm_response)}
    /\ ctx[1].outcome.kind = "raise"

\* the call was a miss that returned a parsed result (line 161 or 174)
MissReturned(outcome) ==
    /\ outcome.kind = "return"
    /\ outcome.line # 94
    /\ outcome.value # Fallback

EntriesUnder(cache, key) == {i \in 1..Len(cache) : cache[i].key = key}

\* the step on which a miss returns its result leaves, under the key of the
\* text, one entry: the returned string, stamped with the clock of the step
StoresWhatItReturns(c) ==
    (~Done(c) /\ MissReturned(ctx'[c].outcome)) =>
        /\ Cardinality(EntriesUnder(intent_cache', ctx[c].cache_key)) = 1
        /\ GetItem(intent_cache', ctx[c].cache_key) =
              Entry(ctx[c].cache_key, ctx'[c].outcome.value, now)
        /\ ctx'[c].outcome.value = JsonDumps(ctx[c].parsed.value)

\* while the call is the last one made, the entry holds what it returned; a
\* call that looks the key up at the very time of the insert is a hit that
\* returns the string the inserting call returned
HeldAndHit(c) ==
    /\ (Done(c) /\ MissReturned(ctx[c].outcome)) =>
          /\ HasKey(intent_cache, ctx[c].cache_key)
          /\ GetItem(intent_cache, ctx[c].cache_key).intent = ctx[c].outcome.value
    /\ (Done(c) /\ Fetched(c) /\ ctx[c].lookup_time = ctx[c].cache_entry.timestamp) =>
          ctx[c].outcome = Returned(LastInsert(ctx[c].cache_key), 94)

\* C12: every miss that returns a parsed result, with or without a
\* function_call, leaves under the key of the text exactly the returned
\* string stamped with the time of the insert, in place of any previous
\* entry; a call with the same text that follows at once is a hit and
\* returns the same string.
C12_MissStoresWhatItReturns ==
    /\ [] (\A c \in Contexts : HeldAndHit(c))
    /\ [][\A c \in Contexts : StoresWhatItReturns(c)]_vars

\* a result without function_call was stored some time after the start, and
\* the call that followed at once was a hit on it
C12_Witness ==
    /\ Done(1) /\ Fetched(1)
    /\ ctx[1].lookup_time = ctx[1].cache_entry.timestamp
    /\ ctx[1].lookup_time > 0
    /\ ctx[1].outcome.kind = "return"
    /\ ~HasFunctionCall(JsonLoadsIntent(ctx[1].outcome.value).value)

Range(seq) == {seq[i] : i \in 1..Len(seq)}

\* what clean_cache found, less the entries of age > 600 s at its clock
\* reading
LeftAfterExpiry(c) ==
    SelectSeq(ctx[c].clean_from,
              LAMBDA e : ctx[c].clean_now - e.timestamp <= 600)

\* C13: when more than 100 entries are left after the expired ones are
\* removed, clean_cache evicts exactly the n - 100 of them with the oldest
\* timestamps: exactly 100 remain, all of them among those left, and no
\* retained entry is older than an evicted one.
C13_EvictsOldest ==
    \A c \in Contexts :
        (Cleaned(c) /\ Len(LeftAfterExpiry(c)) > 100) =>
            LET left == Range(LeftAfterExpiry(c))
                kept == Range(intent_cache)
            IN  /\ Len(intent_cache) = 100
                /\ kept \subseteq left
                /\ Cardinality(left \ kept) = Len(LeftAfterExpiry(c)) - 100
                /\ \A r \in kept, e \in left \ kept : r.timestamp >= e.timestamp

\* clean_cache has returned after it expired some entries and evicted others
\* whose timestamps differ
C13_Witness ==
    /\ Cleaned(1)
    /\ Len(LeftAfterExpiry(1)) > 100
    /\ Len(LeftAfterExpiry(1)) < Len(ctx[1].clean_from)
    /\ Len(intent_cache) = 100
    /\ \E r \in Range(intent_cache), e \in Range(LeftAfterExpiry(1)) :
          e \notin Range(intent_cache) /\ r.timestamp > e.timestamp

\* between the return of clean_cache (line 97) and the insert
AfterCleanup(c) == ctx[c].pc \in {"prompt", "llm", "parse", "post"}

Hit(c) == Done(c) /\ ctx[c].outcome.line = 94

\* a step of c on the way of a hit: it begins the call, tests the key, or
\* reads the entry and returns it
HitPathStep(c) ==
    /\ ctx'[c] # ctx[c]
    /\ \/ ctx'[c].pc \in {"lookup", "fetch"}
       \/ ctx'[c].outcome.line = 94

\* a hit did not run clean_cache, its entry is in the cache as it was read,
\* stamped with the time of the miss that inserted it, and that miss was at
\* most 600 s before the lookup
ServedWithinExpiry(c) ==
    Hit(c) =>
        /\ Count(ctx[c].log, "clean_cache") = 0
        /\ GetItem(intent_cache, ctx[c].cache_key) = ctx[c].cache_entry
        /\ ctx[c].cache_entry.timestamp = InsertTime(ctx[c].cache_key)
        /\ ctx[c].lookup_time - InsertTime(ctx[c].cache_key) <= 600

\* C15: a cache hit leaves the whole cache unchanged: it does not refresh
\* the timestamp of the entry it hits and does not run cleanup; so no string
\* is served from the cache more than 600 s after the miss that inserted it,
\* however often it is hit in between.
C15_HitLeavesCache ==
    /\ [] (\A c \in Contexts : ServedWithinExpiry(c))
    /\ [][\A c \in Contexts : HitPathStep(c) => intent_cache' = intent_cache]_vars

\* a hit on an entry inserted exactly 600 s before, with another entry in
\* the cache beside it
C15_Witness ==
    /\ Hit(1)
    /\ ctx[1].lookup_time - InsertTime(ctx[1].cache_key) = 600
    /\ Len(intent_cache) = 2

\* C16: clean_cache removes only what it must: when at most 100 entries have
\* age <= 600 s, every one of them is still in the cache afterwards; and
\* every entry that is in the cache afterwards is an entry clean_cache found,
\* with the intent and the timestamp it had.
C16_RemovesOnlyWhatItMust ==
    \A c \in Contexts :
        Cleaned(c) =>
            /\ Len(LeftAfterExpiry(c)) <= 100 =>
                  Range(LeftAfterExpiry(c)) \subseteq Range(intent_cache)
            /\ Range(intent_cache) \subseteq Range(ctx[c].clean_from)
            /\ \A i, j \in 1..Len(intent_cache) :
                  intent_cache[i].key = intent_cache[j].key => i = j

\* clean_cache has returned: it removed expired entries and kept the others,
\* fewer than 100 and more than none
C16_Witness ==
    /\ Cleaned(1)
    /\ Len(LeftAfterExpiry(1)) \in 1..99
    /\ Len(LeftAfterExpiry(1)) < Len(ctx[1].clean_from)
    /\ Len(intent_cache) = Len(LeftAfterExpiry(1))

\* the raw text has no segment of this name
SegmentMissing(name, c) ==
    ~ReSearch("<" \o name \o ">", "</" \o name \o ">", ctx[c].llm_response).matched

\* the raw text was built with a <tool_call> segment that is a JSON array
\* whose first candidate, if there is one, is a JSON object
ToolCallUsable(c) ==
    /\ ctx[c].built_from.array
    /\ \/ ctx[c].built_from.candidates = <<>>
       \/ IsDict(ctx[c].built_from.candidates[1])

\* C17: a response with no <tool_call> segment has the empty string decoded
\* at line 58, which is no JSON: the call raises the parse failure, returns
\* no plain intent and inserts nothing.  A missing <tags> or <content>
\* segment gives the empty string in the result, and the call succeeds.
C17_MissingSegments ==
    \A c \in Contexts :
        /\ (Parsed(c) /\ SegmentMissing("tool_call", c)) =>
              /\ Done(c)
              /\ ctx[c].outcome = Raise("JSONDecodeError", 58)
              /\ NothingStored(c)
        /\ \A name \in {"tags", "content"} :
              (Done(c) /\ SegmentMissing(name, c) /\ ToolCallUsable(c)) =>
                  /\ MissReturned(ctx[c].outcome)
                  /\ ctx[c].parsed.value[name] = <<>>
                  /\ JsonLoadsIntent(ctx[c].outcome.value).value[name] = <<>>
                  /\ HasKey(intent_cache, ctx[c].cache_key)

\* a call has ended on a response with <tags> and <content> and no
\* <tool_call>
C17_Witness ==
    /\ Done(1)
    /\ SegmentMissing("tool_call", 1)
    /\ ~SegmentMissing("tags", 1)
    /\ ~SegmentMissing("content", 1)
    /\ ctx[1].outcome.kind = "raise"

====
